---- MODULE Spec2Model ----
(***************************************************************************)
(* Model of telnet_client.py: the client of the AudioControl Director      *)
(* M6400/M6800 telnet protocol.  Python strings are TLA+ strings (TLC      *)
(* evaluates Len, \o and SubSeq on them), Python lists are sequences,      *)
(* dicts are functions, and a raised exception is a result record whose    *)
(* exc field names the exception class.                                    *)
(***************************************************************************)
EXTENDS Integers, Sequences, FiniteSets, TLC

VARIABLES
    pc,          \* position of the caller: "idle", "reading", "returned"
    call,        \* the operation in flight and the command being exchanged
    written,     \* what the operation in flight (or the last one) passed to writer.write
    inbound,     \* segments the device has sent and the reader has not yet returned
    closed,      \* the device has closed the stream (read returns '' once drained)
    result,      \* _async_send_command's local: the chunks read so far
    line_count,  \* _async_send_command's local: '\n' seen so far
    outcome,     \* what the last operation returned or raised
    ncalls,      \* operations started so far
    pending,     \* commands written that the device has not yet answered
    asked,       \* for each command in pending, the number of the call that wrote it
    owners,      \* for each segment in inbound, the number of the call it answers
    other,       \* the locals of the coroutine that is suspended while this one runs
    probe        \* a pure function under check: its arguments and its value

vars ==
    <<pc, call, written, inbound, closed, result, line_count, outcome, ncalls, pending,
      asked, owners, other, probe>>

transport ==
    <<pc, call, written, inbound, closed, result, line_count, outcome, ncalls, pending,
      asked, owners, other>>

(***************************************************************************)
(* Results and exceptions                                                  *)
(***************************************************************************)
Ok(v) == [exc |-> "", value |-> v]

Raise(e, v) == [exc |-> e, value |-> v]

(***************************************************************************)
(* Python string primitives                                                *)
(***************************************************************************)
Digits == "0123456789"

Upper == "ABCDEFGHIJKLMNOPQRSTUVWXYZ"

Lower == "abcdefghijklmnopqrstuvwxyz"

CharAt(s, i) == SubSeq(s, i, i)

\* the least element of a set of positions, 0 for the empty set
FirstOf(hits) == IF hits = {} THEN 0 ELSE CHOOSE i \in hits : \A j \in hits : i <= j

\* 1-based position of character c in table t, 0 when absent
IndexIn(t, c) == FirstOf({i \in 1..Len(t) : CharAt(t, i) = c})

OrdOf(c, upper, lower, digit) ==
    IF upper > 0 THEN 64 + upper
    ELSE IF lower > 0 THEN 96 + lower
    ELSE IF digit > 0 THEN 47 + digit
    ELSE IF c = " " THEN 32
    ELSE 0

\* ord() of a one-character string; 0 stands for any character outside the tables
Ord(c) == OrdOf(c, IndexIn(Upper, c), IndexIn(Lower, c), IndexIn(Digits, c))

\* chr(); a code point outside the tables is written as its escape
Chr(n) ==
    IF n \in 65..90 THEN CharAt(Upper, n - 64)
    ELSE IF n \in 97..122 THEN CharAt(Lower, n - 96)
    ELSE IF n \in 48..57 THEN CharAt(Digits, n - 47)
    ELSE IF n = 32 THEN " "
    ELSE "\\x" \o ToString(n)

Translate(c, from, to, i) == IF i > 0 THEN CharAt(to, i) ELSE c

\* str.lower() and str.upper() of a one-character string
LowerChar(c) == Translate(c, Upper, Lower, IndexIn(Upper, c))

UpperChar(c) == Translate(c, Lower, Upper, IndexIn(Lower, c))

\* s[a:b] with 0 <= a, 0 <= b
PySlice(s, a, b) == SubSeq(s, a + 1, IF b < Len(s) THEN b ELSE Len(s))

\* s[a:]
PyFrom(s, a) == SubSeq(s, a + 1, Len(s))

\* 1-based position of the first occurrence of sep in s, 0 when absent
Find(s, sep) ==
    FirstOf({i \in 1..(Len(s) - Len(sep) + 1) : SubSeq(s, i, i + Len(sep) - 1) = sep})

RECURSIVE Split(_, _)
SplitAt(s, sep, i) ==
    IF i = 0 THEN <<s>>
    ELSE <<SubSeq(s, 1, i - 1)>> \o Split(SubSeq(s, i + Len(sep), Len(s)), sep)

\* s.split(sep)
Split(s, sep) == SplitAt(s, sep, Find(s, sep))

Split1At(s, sep, i) ==
    IF i = 0 THEN <<s>>
    ELSE <<SubSeq(s, 1, i - 1), SubSeq(s, i + Len(sep), Len(s))>>

\* s.split(sep, 1)
Split1(s, sep) == Split1At(s, sep, Find(s, sep))

RECURSIVE AllDigits(_)
AllDigits(s) ==
    IF s = "" THEN TRUE
    ELSE IndexIn(Digits, CharAt(s, 1)) > 0 /\ AllDigits(SubSeq(s, 2, Len(s)))

RECURSIVE DigitsValue(_, _)
DigitsValue(s, acc) ==
    IF s = "" THEN acc
    ELSE DigitsValue(SubSeq(s, 2, Len(s)), 10 * acc + IndexIn(Digits, CharAt(s, 1)) - 1)

Whitespace == {" ", "\t", "\r", "\n"}

RECURSIVE Strip(_)
\* s.strip()
Strip(s) ==
    IF s # "" /\ CharAt(s, 1) \in Whitespace THEN Strip(SubSeq(s, 2, Len(s)))
    ELSE IF s # "" /\ CharAt(s, Len(s)) \in Whitespace THEN Strip(SubSeq(s, 1, Len(s) - 1))
    ELSE s

Unsigned(t) == IF t # "" /\ CharAt(t, 1) \in {"-", "+"} THEN SubSeq(t, 2, Len(t)) ELSE t

PyIntOf(s, t, d) ==
    IF d = "" \/ ~AllDigits(d) THEN Raise("ValueError", s)
    ELSE IF CharAt(t, 1) = "-" THEN Ok(0 - DigitsValue(d, 0))
    ELSE Ok(DigitsValue(d, 0))

PyIntStripped(s, t) == PyIntOf(s, t, Unsigned(t))

\* int(s): surrounding whitespace and one sign are accepted, anything else is a ValueError
PyInt(s) == PyIntStripped(s, Strip(s))

\* str(n)
PyStr(n) == ToString(n)

\* list(range(a, b))
PyRange(a, b) == [k \in 1..(b - a) |-> a + k - 1]

(***************************************************************************)
(* class InputID                                                           *)
(***************************************************************************)
InputID(pretty_name, status_name, protocol_name, is_analog) ==
    [pretty_name |-> pretty_name, status_name |-> status_name,
     protocol_name |-> protocol_name, is_analog |-> is_analog]

analog_of(index, c1, c2) ==
    InputID("Channel " \o c1 \o "-" \o c2, "MX" \o index \o " & " \o index, "MX" \o index, TRUE)

InputID_create_analog(index) == analog_of(PyStr(index), PyStr(index * 2 - 1), PyStr(index * 2))

digital_of(c, bigc, c1) ==
    InputID("Digital In " \o bigc, "MX" \o c1 \o " & " \o c1, "DX" \o c, FALSE)

InputID_create_digital(index, num_analog) ==
    digital_of(Chr(Ord("a") + index - 1), Chr(Ord("A") + index - 1), PyStr(num_analog + index))

\* The value create_from_pretty_name returns for an unknown prefix: False
NotAnInput == InputID("", "", "", FALSE)

analog_from_channel_no_offset(n) ==
    IF n.exc # "" THEN n ELSE Ok(InputID_create_analog(n.value \div 2))

analog_from_channel(n) ==
    IF n.exc # "" THEN n ELSE Ok(InputID_create_analog((n.value \div 2) + 1))

from_name_parts(name, name_parts, num_analog) ==
    IF name_parts[1] = "Channel" THEN
        IF Len(name_parts) < 2 THEN Raise("IndexError", name)
        ELSE analog_from_channel(PyInt(Split(name_parts[2], "-")[1]))
    ELSE IF name_parts[1] = "Digital" THEN
        IF Len(name_parts) < 3 THEN Raise("IndexError", name)
        ELSE IF Len(name_parts[3]) # 1 THEN Raise("TypeError", name)
        ELSE Ok(InputID_create_digital(Ord(name_parts[3]) - Ord("A") + 1, num_analog))
    ELSE Ok(NotAnInput)

\* Ok(InputID), or Ok(NotAnInput) for the code's False, or the exception raised
InputID_create_from_pretty_name(name, num_analog) ==
    from_name_parts(name, Split(name, " "), num_analog)

input_of_index(index, num_analog) ==
    IF index.exc # "" THEN index
    ELSE IF index.value <= num_analog THEN Ok(InputID_create_analog(index.value))
    ELSE Ok(InputID_create_digital(index.value - num_analog, num_analog))

InputID_create_from_status_id(status_name, num_analog) ==
    input_of_index(PyInt(Split(PyFrom(status_name, 2), " & ")[1]), num_analog)

(***************************************************************************)
(* class OutputID                                                          *)
(***************************************************************************)
OutputID_create(zone_id, group_id, digital_id) ==
    [zone_id |-> zone_id, group_id |-> group_id, digital_id |-> digital_id]

OutputID_all ==
    [k \in 1..Len(PyRange(1, 8)) |-> OutputID_create(PyRange(1, 8)[k], 0, "")]
        \o <<OutputID_create(9, 0, "a")>>
        \o <<OutputID_create(10, 0, "b")>>

\* the digital_id create_from_status_id reads off the display name
digital_id_of(name) ==
    IF PySlice(name, 0, 10) = "Digital Out" THEN
        IF Len(name) <= 12 THEN Raise("IndexError", name)
        ELSE Ok(LowerChar(CharAt(name, 13)))
    ELSE Ok("")

output_of(digital_id, zone, group) ==
    IF digital_id.exc # "" THEN digital_id
    ELSE IF zone.exc # "" THEN zone
    ELSE IF group.exc # "" THEN group
    ELSE Ok(OutputID_create(zone.value, group.value, digital_id.value))

OutputID_create_from_status_id(status_id, group_id, name) ==
    output_of(digital_id_of(name), PyInt(status_id), PyInt(group_id))

OutputID_name(o) ==
    IF o.digital_id = "" THEN "Zone " \o PyStr(o.zone_id)
    ELSE "Digital Out " \o UpperChar(o.digital_id)

OutputID_str(o) ==
    IF o.digital_id = "" THEN "Z" \o PyStr(o.zone_id)
    ELSE "DXO" \o o.digital_id

OutputID_op_str(o) ==
    IF o.group_id > 0 THEN "GRP" \o PyStr(o.group_id)
    ELSE OutputID_str(o)

(***************************************************************************)
(* TelnetClient._interpret_result                                          *)
(***************************************************************************)
interpret_body_ignores_flag(command, res, expect_success_code) ==
    IF res = "xx" \o command \o "xx\r" THEN Raise("BadCommandError", "xx" \o command \o "xx")
    ELSE Ok(<<res = "01" \o command \o "\r", res>>)

\* what _interpret_result makes of the result once the echo has matched
interpret_body(command, res, expect_success_code) ==
    IF res = "xx" \o command \o "xx\r" THEN Raise("BadCommandError", "xx" \o command \o "xx")
    ELSE IF expect_success_code THEN Ok(<<res = "01" \o command \o "\r", res>>)
    ELSE Ok(<<TRUE, res>>)

interpret_parts_markers_first(command, response_parts, expect_success_code) ==
    IF Len(response_parts) >= 2 /\ response_parts[2] = "xx" \o command \o "xx\r"
    THEN Raise("BadCommandError", "xx" \o command \o "xx")
    ELSE IF response_parts[1] # command THEN Raise("Exception", response_parts[1])
    ELSE IF Len(response_parts) < 2 THEN Raise("IndexError", "")
    ELSE interpret_body(command, response_parts[2], expect_success_code)

interpret_parts(command, response_parts, expect_success_code) ==
    IF response_parts[1] # command THEN Raise("Exception", response_parts[1])
    ELSE IF Len(response_parts) < 2 THEN Raise("IndexError", "")
    ELSE interpret_body(command, response_parts[2], expect_success_code)

\* Ok(<<succeeded, result>>) or the exception raised; the plain Exception of
\* the echo check carries the echo it found
interpret_result(command, response, expect_success_code) ==
    interpret_parts(command, Split1(response, "\r"), expect_success_code)

(***************************************************************************)
(* TelnetClient.async_get_system_status: the two table parsers             *)
(***************************************************************************)
EmptyDict == <<>>

\* d[k] = v
DictSet(d, k, v) == (k :> v) @@ d

OutputStatus(output_id, name, input_id, is_on, volume, is_signal_sense_on, group_id) ==
    [output_id |-> output_id, name |-> name, input_id |-> input_id, is_on |-> is_on,
     volume |-> volume, is_signal_sense_on |-> is_signal_sense_on, group_id |-> group_id]

SystemStatus(name, outputs, inputs, input_names) ==
    [name |-> name, outputs |-> outputs, inputs |-> inputs, input_names |-> input_names]

NoInputs == [exc |-> "", num_analog |-> 0, inputs |-> EmptyDict, input_names |-> <<>>]

\* the body of the INPUT? loop once the row's name is decoded: the locals after the row
input_recorded(acc, name, input_id) ==
    IF input_id.exc # "" THEN [acc EXCEPT !.exc = input_id.exc]
    ELSE IF input_id.value # NotAnInput THEN
        [exc |-> "",
         num_analog |-> IF input_id.value.is_analog THEN acc.num_analog + 1 ELSE acc.num_analog,
         inputs |-> DictSet(acc.inputs, name, input_id.value),
         input_names |-> Append(acc.input_names, name)]
    ELSE acc

RECURSIVE input_rows(_, _, _)
input_row(result_lines, i, acc, fields) ==
    IF Len(fields) < 2 THEN acc
    ELSE input_rows(result_lines, i + 1,
                    input_recorded(acc, fields[1],
                                   InputID_create_from_pretty_name(fields[1], acc.num_analog)))

\* the loop over the INPUT? rows, from row i on, with the locals in acc
input_rows(result_lines, i, acc) ==
    IF i > Len(result_lines) \/ acc.exc # "" THEN acc
    ELSE input_row(result_lines, i, acc, Split(result_lines[i], ": "))

\* the INPUT? half of async_get_system_status: [exc, num_analog, inputs, input_names]
parse_input_table(raw_result) == input_rows(Split(raw_result, "\r\n"), 1, NoInputs)

output_status_of(name, output_id, is_on, input_id, volume, group_id, is_signal_sense_on) ==
    IF output_id.exc # "" THEN output_id
    ELSE IF input_id.exc # "" THEN input_id
    ELSE IF volume.exc # "" THEN volume
    ELSE IF group_id.exc # "" THEN group_id
    ELSE Ok(<<OutputID_str(output_id.value),
              OutputStatus(output_id.value, name, input_id.value, is_on, volume.value,
                           is_signal_sense_on, group_id.value)>>)

output_row_swapped(fields, num_analog) ==
    output_status_of(fields[1],
                     OutputID_create_from_status_id(fields[2], fields[9], fields[1]),
                     fields[11] = "on",
                     InputID_create_from_status_id(fields[4], num_analog),
                     PyInt(fields[5]),
                     PyInt(fields[9]),
                     fields[3] = "on")

\* one output row: Ok(<<key, OutputStatus>>) or the exception raised
output_row(fields, num_analog) ==
    output_status_of(fields[1],
                     OutputID_create_from_status_id(fields[2], fields[9], fields[1]),
                     fields[3] = "on",
                     InputID_create_from_status_id(fields[4], num_analog),
                     PyInt(fields[5]),
                     PyInt(fields[9]),
                     fields[11] = "on")

RECURSIVE output_rows(_, _, _, _)
output_recorded(output_lines, i, num_analog, outputs, row) ==
    IF row.exc # "" THEN [exc |-> row.exc, outputs |-> outputs]
    ELSE output_rows(output_lines, i + 1, num_analog, DictSet(outputs, row.value[1], row.value[2]))

output_fields_continue(output_lines, i, num_analog, outputs, fields) ==
    IF Len(fields) < 11 THEN output_rows(output_lines, i + 1, num_analog, outputs)
    ELSE output_recorded(output_lines, i, num_analog, outputs, output_row(fields, num_analog))

output_fields(output_lines, i, num_analog, outputs, fields) ==
    IF Len(fields) < 11 THEN [exc |-> "", outputs |-> outputs]
    ELSE output_recorded(output_lines, i, num_analog, outputs, output_row(fields, num_analog))

\* the loop over the SYSTEMstat? output rows, from row i on: [exc, outputs]
output_rows(output_lines, i, num_analog, outputs) ==
    IF i > Len(output_lines) THEN [exc |-> "", outputs |-> outputs]
    ELSE output_fields(output_lines, i, num_analog, outputs, Split(output_lines[i], ", "))

system_table_of(system_name_parts, rows) ==
    IF Len(system_name_parts) < 2 THEN [exc |-> "IndexError", name |-> "", outputs |-> EmptyDict]
    ELSE [exc |-> rows.exc, name |-> system_name_parts[2], outputs |-> rows.outputs]

system_lines(result_lines, num_analog) ==
    system_table_of(Split(result_lines[1], "AMPLIFIER NAME: "),
                    output_rows(SubSeq(result_lines, 11 + 1, Len(result_lines)), 1,
                                num_analog, EmptyDict))

\* the SYSTEMstat? half of async_get_system_status: [exc, name, outputs]
parse_system_table(raw_result, num_analog) ==
    system_lines(Split(raw_result, "\r\n"), num_analog)

system_status_from(ins, sys) ==
    IF ins.exc # "" THEN Raise(ins.exc, "INPUT?")
    ELSE IF sys.exc # "" THEN Raise(sys.exc, "SYSTEMstat?")
    ELSE Ok(SystemStatus(sys.name, sys.outputs, ins.inputs, ins.input_names))

system_status_with(ins, system_raw) ==
    system_status_from(ins, parse_system_table(system_raw, ins.num_analog))

\* async_get_system_status once both raw bodies are in hand
system_status_of(input_raw, system_raw) ==
    system_status_with(parse_input_table(input_raw), system_raw)

(***************************************************************************)
(* The device and the stream                                               *)
(***************************************************************************)
MaxCalls == 2

ReadSize == 4096

RECURSIVE Concat(_)
Concat(segments) ==
    IF segments = <<>> THEN "" ELSE Head(segments) \o Concat(Tail(segments))

\* the arguments the callers pass
Outputs == {OutputID_create(1, 0, ""), OutputID_create(2, 3, ""), OutputID_create(9, 0, "a")}

Inputs == {InputID_create_analog(1), InputID_create_digital(1, 8)}

Volumes == {0 - 1, 100, 101}

\* INPUT? bodies: CRLF rows "{prettyName}: {rest}"
InputRow(name) == name \o ": in\r\n"

InputBody(num_analog, num_digital) ==
    Concat([k \in 1..num_analog |-> InputRow(InputID_create_analog(k).pretty_name)])
        \o Concat([k \in 1..num_digital |-> InputRow(InputID_create_digital(k, num_analog).pretty_name)])

\* SYSTEMstat? bodies: the preamble of the documented response (with the blank
\* line before the column header it has 11 lines, without it 10), the output rows
Preamble(name, lines) ==
    "AMPLIFIER NAME: " \o name \o "\r\n"
        \o "GLOBAL TEMP: 111 F & Normal\r\n"
        \o "GLOBAL VOLTAGE: 126 & Normal\r\n"
        \o "ZONE OUTPUT PROTECT:\r\n"
        \o "GLOBAL PROTECTION: Normal\r\n"
        \o "THERMAL PROTECTION: Normal\r\n"
        \o "IP ADDRESS: 10.111.16.52\r\n"
        \o "DATE 10/10/2022\r\n"
        \o "TIME '17:30:08\r\n"
        \o (IF lines = 11 THEN "\r\n" ELSE "")
        \o "ZONES, #, POWER STATE, INPUT, VOLUME, BASS, TREBLE, EQ, GROUP, TEMP, SIG. SENSE\r\n"

OutputRow(name, index, power, input, volume, group, sense) ==
    name \o ", " \o index \o ", " \o power \o ", " \o input \o ", " \o volume
         \o ", 0, 0, Acoustic and 0, " \o group \o ", 111 F/Normal, " \o sense

NumOutputs == 10

\* row k of the device's table: zones 1..8, then Digital Out A and B at 9 and 10;
\* variant 1 is the documented response, variant 2 varies power, volume and sense
RowName(k) == IF k <= 8 THEN "Zone " \o ToString(k) ELSE "Digital Out " \o CharAt(Upper, k - 8)

RowPower(k, v) == IF v = 1 \/ k % 2 = 0 THEN "on" ELSE "off"

RowVolume(k, v) == IF v = 1 THEN 100 ELSE 7 * k

RowSense(k, v) == IF v # 1 /\ k % 3 = 0 THEN "on" ELSE "off"

RowInput(k) == IF k <= 8 THEN "MX" \o ToString(k) \o " & " \o ToString(k) ELSE "MX10 & 10"

DeviceRow(k, v) ==
    OutputRow(RowName(k), ToString(k), RowPower(k, v), RowInput(k), ToString(RowVolume(k, v)),
              "0", RowSense(k, v)) \o "\r\n"

\* what the device may send for a command, as the segments it writes
ControlResponses(command) ==
    { <<command \o "\r", "01" \o command \o "\r">>,
      <<command \o "\r", "xx" \o command \o "xx\r">>,
      <<command \o "\r\n", "01" \o command \o "\r\n">>,
      <<"?\r", "01" \o command \o "\r\n">> }

InputResponses ==
    { <<"INPUT?\r", InputBody(2, 1), Concat([k \in 1..5 |-> "\r\n"])>>,
      <<"INPUT?\r", "xxINPUT?xx\r">>,
      <<"?\r\n", InputBody(8, 2)>> }

SystemResponses ==
    { <<"SYSTEMstat?\r", Preamble("Director", 11), DeviceRow(1, 1) \o DeviceRow(9, 1),
        Concat([k \in 1..4 |-> "\r\n"])>>,
      <<"SYSTEMstat?\r", Preamble("Director", 11), Concat([k \in 1..6 |-> DeviceRow(k, 1)]),
        DeviceRow(7, 1) \o DeviceRow(8, 1), DeviceRow(9, 1) \o DeviceRow(10, 1)>>,
      <<"SYSTEMstat?\r", "xxSYSTEMstat?xx\r">> }

Responses(command) ==
    IF command = "INPUT?" THEN InputResponses
    ELSE IF command = "SYSTEMstat?" THEN SystemResponses
    ELSE ControlResponses(command)

NoCall ==
    [id |-> 0, op |-> "", command |-> "", min_line_count |-> 0, ins |-> NoInputs, serial |-> TRUE]

NoOutcome == [exc |-> "", value |-> "pending"]

NoProbe == [fn |-> ""]

\* a coroutine that has not called the client yet
NoTask == [pc |-> "idle", call |-> NoCall, result |-> "", line_count |-> 0, outcome |-> NoOutcome]

TransportInit ==
    /\ pc = "idle"
    /\ call = NoCall
    /\ written = <<>>
    /\ inbound = <<>>
    /\ closed = FALSE
    /\ result = ""
    /\ line_count = 0
    /\ outcome = NoOutcome
    /\ ncalls = 0
    /\ pending = <<>>
    /\ asked = <<>>
    /\ owners = <<>>
    /\ other = NoTask

Init == TransportInit /\ probe = NoProbe

(***************************************************************************)
(* TelnetClient._async_send_command, up to its first read                  *)
(***************************************************************************)
send_command(command) ==
    /\ written' = <<command \o "\r">>
    /\ pending' = Append(pending, command)
    /\ asked' = Append(asked, call'.id)
    /\ result' = ""
    /\ line_count' = 0
    /\ pc' = "reading"
    /\ UNCHANGED <<inbound, owners, closed, other, probe>>

\* the caller starts this call with no other call in flight (the other
\* coroutine is not inside an operation) and nothing unread or unanswered
Serialized == other.pc # "reading" /\ inbound = <<>> /\ pending = <<>>

Start_unserialized(op, command, min_line_count) ==
    /\ pc = "idle"
    /\ ncalls < MaxCalls
    /\ ncalls' = ncalls + 1
    /\ outcome' = NoOutcome
    /\ call' = [id |-> ncalls + 1, op |-> op, command |-> command,
                min_line_count |-> min_line_count, ins |-> NoInputs, serial |-> TRUE]

\* a caller starts an operation; the client itself checks nothing
Start(op, command, min_line_count) ==
    /\ pc = "idle"
    /\ ncalls < MaxCalls
    /\ ncalls' = ncalls + 1
    /\ outcome' = NoOutcome
    /\ call' = [id |-> ncalls + 1, op |-> op, command |-> command,
                min_line_count |-> min_line_count, ins |-> NoInputs, serial |-> Serialized]

async_map_input_to_output(input_id, output_id) ==
    /\ Start("map", OutputID_op_str(output_id) \o "source" \o input_id.protocol_name, 1)
    /\ send_command(OutputID_op_str(output_id) \o "source" \o input_id.protocol_name)

async_set_output_power_state(output_id, state) ==
    /\ Start("power", OutputID_op_str(output_id) \o (IF state THEN "on" ELSE "off"), 1)
    /\ send_command(OutputID_op_str(output_id) \o (IF state THEN "on" ELSE "off"))

async_set_output_volume_grouped(output_id, volume) ==
    /\ Start("volume", OutputID_op_str(output_id) \o "setvol" \o PyStr(volume), 1)
    /\ send_command(OutputID_op_str(output_id) \o "setvol" \o PyStr(volume))

async_set_output_volume(output_id, volume) ==
    /\ Start("volume", OutputID_str(output_id) \o "setvol" \o PyStr(volume), 1)
    /\ send_command(OutputID_str(output_id) \o "setvol" \o PyStr(volume))

\* async_get_system_status up to the first read of async_get_input_raw
async_get_system_status ==
    /\ Start("status", "INPUT?", 8)
    /\ send_command("INPUT?")

MapInputToOutput == \E i \in Inputs, o \in Outputs : async_map_input_to_output(i, o)

SetOutputPowerState == \E o \in Outputs, s \in BOOLEAN : async_set_output_power_state(o, s)

SetOutputVolume == \E o \in Outputs, v \in Volumes : async_set_output_volume(o, v)

GetSystemStatus == async_get_system_status

(***************************************************************************)
(* The read loop and what each operation does with the response            *)
(***************************************************************************)
Returned(res, count, out) ==
    /\ pc' = "returned"
    /\ result' = res
    /\ line_count' = count
    /\ outcome' = out
    /\ UNCHANGED <<call, written, pending, asked, ncalls>>

\* the control operations drop what _async_send_command returns
control_done(res, count) == Returned(res, count, Ok("None"))

input_parsed(res, count, ins) ==
    IF ins.exc # "" THEN Returned(res, count, Raise(ins.exc, "INPUT?"))
    ELSE /\ written' = Append(written, "SYSTEMstat?\r")
         /\ pending' = Append(pending, "SYSTEMstat?")
         /\ asked' = Append(asked, call.id)
         /\ call' = [call EXCEPT !.command = "SYSTEMstat?", !.min_line_count = 17, !.ins = ins]
         /\ result' = ""
         /\ line_count' = 0
         /\ UNCHANGED <<pc, outcome, ncalls>>

input_interpreted(res, count, r) ==
    IF r.exc # "" THEN Returned(res, count, r)
    ELSE input_parsed(res, count, parse_input_table(r.value[2]))

\* async_get_input_raw returned: parse the input table, then async_get_system_status_raw
input_raw_done(res, count) ==
    input_interpreted(res, count, interpret_result("INPUT?", res, FALSE))

system_parsed(res, count, sys) ==
    IF sys.exc # "" THEN Returned(res, count, Raise(sys.exc, "SYSTEMstat?"))
    ELSE Returned(res, count,
                  Ok(SystemStatus(sys.name, sys.outputs, call.ins.inputs, call.ins.input_names)))

system_interpreted(res, count, r) ==
    IF r.exc # "" THEN Returned(res, count, r)
    ELSE system_parsed(res, count, parse_system_table(r.value[2], call.ins.num_analog))

\* async_get_system_status_raw returned: parse the system table
system_raw_done(res, count) ==
    system_interpreted(res, count, interpret_result("SYSTEMstat?", res, FALSE))

\* _async_send_command returned res to the operation that called it
command_done(res, count) ==
    IF call.op # "status" THEN control_done(res, count)
    ELSE IF call.command = "INPUT?" THEN input_raw_done(res, count)
    ELSE system_raw_done(res, count)

\* the loop body of _async_send_command after reader.read returned partial_result
read_chunk(partial_result, new_count) ==
    IF partial_result = "" THEN command_done(result, line_count)
    ELSE IF new_count >= call.min_line_count THEN command_done(result \o partial_result, new_count)
    ELSE /\ result' = result \o partial_result
         /\ line_count' = new_count
         /\ UNCHANGED <<pc, call, written, pending, asked, outcome, ncalls>>

read_of_per_chunk(partial_result) ==
    /\ Len(partial_result) <= ReadSize
    /\ read_chunk(partial_result, Len(Split(partial_result, "\n")) - 1)

read_of(partial_result) ==
    /\ Len(partial_result) <= ReadSize
    /\ read_chunk(partial_result, line_count + (Len(Split(partial_result, "\n")) - 1))

\* one reader.read(4096) of the loop of _async_send_command: k segments, or '' at end of stream
read(k) ==
    /\ inbound' = SubSeq(inbound, k + 1, Len(inbound))
    /\ owners' = SubSeq(owners, k + 1, Len(owners))
    /\ UNCHANGED <<closed, other, probe>>
    /\ read_of(Concat(SubSeq(inbound, 1, k)))

Read ==
    /\ pc = "reading"
    /\ \E k \in (IF inbound # <<>> THEN 1..Len(inbound) ELSE IF closed THEN {0} ELSE {}) : read(k)

\* the caller takes the result; the client is free for the next operation
Return ==
    /\ pc = "returned"
    /\ pc' = "idle"
    /\ UNCHANGED <<call, written, inbound, closed, result, line_count, outcome, ncalls, pending,
                   asked, owners, other, probe>>

DeviceRespond ==
    /\ pending # <<>>
    /\ ~closed
    /\ \E r \in Responses(Head(pending)) :
           /\ inbound' = inbound \o r
           /\ owners' = owners \o [j \in 1..Len(r) |-> Head(asked)]
    /\ pending' = Tail(pending)
    /\ asked' = Tail(asked)
    /\ UNCHANGED <<pc, call, written, closed, result, line_count, outcome, ncalls, other, probe>>

\* the device sends only the first segments of its answer and closes the stream
DeviceTruncate ==
    /\ pending # <<>>
    /\ ~closed
    /\ \E r \in Responses(Head(pending)) : \E n \in 0..(Len(r) - 1) :
           /\ inbound' = inbound \o SubSeq(r, 1, n)
           /\ owners' = owners \o [j \in 1..n |-> Head(asked)]
    /\ pending' = Tail(pending)
    /\ asked' = Tail(asked)
    /\ closed' = TRUE
    /\ UNCHANGED <<pc, call, written, result, line_count, outcome, ncalls, other, probe>>

DeviceClose ==
    /\ pending = <<>>
    /\ ~closed
    /\ closed' = TRUE
    /\ UNCHANGED <<pc, call, written, inbound, result, line_count, outcome, ncalls, pending,
                   asked, owners, other, probe>>

Next ==
    \/ MapInputToOutput
    \/ SetOutputPowerState
    \/ SetOutputVolume
    \/ GetSystemStatus
    \/ Read
    \/ Return
    \/ DeviceRespond
    \/ DeviceTruncate
    \/ DeviceClose

Spec == Init /\ [][Next]_vars

(***************************************************************************)
(* _interpret_result on its own: every command, response and flag drawn    *)
(* from the sets below                                                     *)
(***************************************************************************)
ProbeCommands == {"FOO", "Z1on", "INPUT?"}

ProbeEchoes(command) ==
    {command, "BAR", "", command \o "x", "xx" \o command \o "xx", "01" \o command}

ProbeBodies(command) ==
    {"01" \o command \o "\r", "xx" \o command \o "xx\r", "", "01" \o command,
     "xx" \o command \o "xx\r\n", "data\r\nmore\r\n", "\n01" \o command \o "\r"}

ProbeResponses(command) ==
    {e \o "\r" \o b : e \in ProbeEchoes(command), b \in ProbeBodies(command)}
        \cup ProbeEchoes(command)

InterpretInit ==
    /\ TransportInit
    /\ \E c \in ProbeCommands : \E r \in ProbeResponses(c) : \E e \in BOOLEAN :
           probe = [fn |-> "interpret", command |-> c, response |-> r, expect |-> e,
                    done |-> FALSE, out |-> NoOutcome]

InterpretResult ==
    /\ probe.fn = "interpret"
    /\ ~probe.done
    /\ probe' = [probe EXCEPT !.done = TRUE,
                              !.out = interpret_result(probe.command, probe.response, probe.expect)]
    /\ UNCHANGED transport

SpecInterp == InterpretInit /\ [][InterpretResult]_vars

\* the number of characters of r before its first CR (all of them when it has none)
EchoLen(r) ==
    CHOOSE n \in 0..Len(r) :
        /\ \A i \in 1..n : CharAt(r, i) # "\r"
        /\ n = Len(r) \/ CharAt(r, n + 1) = "\r"

EchoOf(r) == SubSeq(r, 1, EchoLen(r))

HasCR(r) == EchoLen(r) < Len(r)

BodyOf(r) == SubSeq(r, EchoLen(r) + 2, Len(r))

\* C1: whenever the text before the first CR of the response differs from the
\* command, _interpret_result raises the echo exception carrying that text, for
\* either value of expect_success_code and whatever marker the body holds: it
\* never raises BadCommandError and never returns (succeeded, body).
C1_EchoMismatchFails ==
    (probe.fn = "interpret" /\ probe.done /\ EchoOf(probe.response) # probe.command)
        => (probe.out.exc = "Exception" /\ probe.out.value = EchoOf(probe.response))

\* C1's case: a mismatched echo in front of the rejection marker of the command
C1_Witness ==
    /\ probe.fn = "interpret"
    /\ probe.done
    /\ probe.command = "FOO"
    /\ probe.response = "BAR\rxxFOOxx\r"
    /\ probe.out.exc = "Exception"

\* C2: a response holding a CR whose text before the first CR equals the command
\* is classified by the text after that CR alone: the rejection marker raises
\* BadCommandError, the success marker returns (True, body), any other body
\* returns (False, body) when a success code is expected and (True, body) when
\* not; the body returned is the text after the first CR.
C2_MarkerClassification ==
    (probe.fn = "interpret" /\ probe.done /\ HasCR(probe.response)
                            /\ EchoOf(probe.response) = probe.command)
        => IF BodyOf(probe.response) = "xx" \o probe.command \o "xx\r"
           THEN probe.out.exc = "BadCommandError"
           ELSE IF BodyOf(probe.response) = "01" \o probe.command \o "\r"
           THEN probe.out = Ok(<<TRUE, BodyOf(probe.response)>>)
           ELSE probe.out = Ok(<<~probe.expect, BodyOf(probe.response)>>)

\* C2's case: an unmarked body read with a success code expected
C2_Witness ==
    /\ probe.fn = "interpret"
    /\ probe.done
    /\ probe.expect
    /\ probe.response = "FOO\rdata\r\nmore\r\n"
    /\ probe.out = Ok(<<FALSE, "data\r\nmore\r\n">>)

(***************************************************************************)
(* The address codec on its own                                            *)
(***************************************************************************)
AnalogIndexes == 8

DigitalIndexes == 2

MaxNumAnalog == 10

CreateAnalog ==
    /\ probe = NoProbe
    /\ \E i \in 1..AnalogIndexes : \E n \in i..MaxNumAnalog :
           probe' = [fn |-> "analog", index |-> i, num_analog |-> n, step |-> "created",
                     id |-> InputID_create_analog(i), decoded |-> NoOutcome]
    /\ UNCHANGED transport

CreateDigital ==
    /\ probe = NoProbe
    /\ \E i \in 1..DigitalIndexes : \E n \in 0..MaxNumAnalog :
           probe' = [fn |-> "digital", index |-> i, num_analog |-> n, step |-> "created",
                     id |-> InputID_create_digital(i, n), decoded |-> NoOutcome]
    /\ UNCHANGED transport

DecodeStatusId ==
    /\ probe.fn \in {"analog", "digital"}
    /\ probe.step = "created"
    /\ probe' = [probe EXCEPT !.step = "from_status_id",
                              !.decoded = InputID_create_from_status_id(probe.id.status_name,
                                                                        probe.num_analog)]
    /\ UNCHANGED transport

DecodePrettyName ==
    /\ probe.fn \in {"analog", "digital"}
    /\ probe.step = "created"
    /\ probe' = [probe EXCEPT !.step = "from_pretty_name",
                              !.decoded = InputID_create_from_pretty_name(probe.id.pretty_name,
                                                                          probe.num_analog)]
    /\ UNCHANGED transport

AllOutputs ==
    /\ probe = NoProbe
    /\ probe' = [fn |-> "all", out |-> OutputID_all]
    /\ UNCHANGED transport

CodecNext == CreateAnalog \/ CreateDigital \/ DecodeStatusId \/ DecodePrettyName \/ AllOutputs

SpecCodec == Init /\ [][CodecNext]_vars

\* C8: analog input i has protocol name MX{i} and digital input i has the
\* lower-case protocol name DX{letter}; decoding an input's status name or its
\* pretty name, with num_analog >= i for an analog input and any num_analog
\* for a digital one, gives back an InputID equal in all four attributes.
C8_InputRoundTrip ==
    /\ probe.fn = "analog" =>
           /\ probe.id.protocol_name = "MX" \o ToString(probe.index)
           /\ probe.id.is_analog
    /\ probe.fn = "digital" =>
           /\ probe.id.protocol_name = "DX" \o CharAt(Lower, probe.index)
           /\ ~probe.id.is_analog
    /\ (probe.fn \in {"analog", "digital"} /\ probe.step # "created") =>
           probe.decoded = Ok(probe.id)

\* C8's case: digital input 2 decoded from its status name when there is no analog input
C8_Witness ==
    /\ probe.fn = "digital"
    /\ probe.index = 2
    /\ probe.num_analog = 0
    /\ probe.step = "from_status_id"
    /\ probe.decoded.exc = ""
    /\ probe.decoded.value.protocol_name = "DXb"

\* the fixed device topology: zones 1..8, then digital outputs a and b at 9 and 10
Topology ==
    [k \in 1..8 |-> OutputID_create(k, 0, "")]
        \o <<OutputID_create(9, 0, "a"), OutputID_create(10, 0, "b")>>

\* C9: OutputID.all() is the ten outputs of the device: zones 1 to 8 with wire
\* forms Z1..Z8, then digital outputs a and b with wire forms DXOa and DXOb.
C9_AllOutputs ==
    probe.fn = "all" =>
        /\ probe.out = Topology
        /\ [k \in 1..Len(probe.out) |-> OutputID_str(probe.out[k])]
               = <<"Z1", "Z2", "Z3", "Z4", "Z5", "Z6", "Z7", "Z8", "DXOa", "DXOb">>

(***************************************************************************)
(* The two table parsers on their own: async_get_system_status on raw      *)
(* bodies drawn from the sets below                                        *)
(***************************************************************************)
\* the INPUT? tables: <<analog inputs, digital inputs>>
ProbeTables == {<<8, 2>>, <<2, 1>>, <<0, 0>>}

\* the outputs whose rows the SYSTEMstat? body holds, in order
ProbeRows == {[k \in 1..n |-> k] : n \in 0..NumOutputs} \cup {<<1, 9>>, <<9, 10>>}

\* what follows the rows: the end of the body, a blank line, or a short row
\* with a well-formed row after it
ProbeTerminators ==
    <<"", "\r\n",
      "END, OF, TABLE\r\n"
          \o OutputRow("Zone 12", "12", "on", "MX1 & 1", "100", "0", "off") \o "\r\n">>

ProbeSystemBody(lines, rows, v, t) ==
    Preamble("Director", lines)
        \o Concat([j \in 1..Len(rows) |-> DeviceRow(rows[j], v)])
        \o ProbeTerminators[t]

ParseInit ==
    /\ TransportInit
    /\ \E tables \in ProbeTables : \E lines \in {10, 11} : \E rows \in ProbeRows :
       \E v \in {1, 2} : \E t \in 1..Len(ProbeTerminators) :
           probe = [fn |-> "status", tables |-> tables, lines |-> lines, rows |-> rows,
                    variant |-> v, terminator |-> t, done |-> FALSE, out |-> NoOutcome]

ParseStatus ==
    /\ probe.fn = "status"
    /\ ~probe.done
    /\ probe' = [probe EXCEPT
                    !.done = TRUE,
                    !.out = system_status_of(InputBody(probe.tables[1], probe.tables[2]),
                                             ProbeSystemBody(probe.lines, probe.rows,
                                                             probe.variant, probe.terminator))]
    /\ UNCHANGED transport

SpecParse == ParseInit /\ [][ParseStatus]_vars

Parsed == probe.fn = "status" /\ probe.done

\* the entries of the output map that carry the display name of output k
EntriesOf(k) ==
    {key \in DOMAIN probe.out.value.outputs : probe.out.value.outputs[key].name = RowName(k)}

\* the entry of row k holds what the row says
EntryMatches(e, k) ==
    /\ e.is_on = (RowPower(k, probe.variant) = "on")
    /\ e.volume = RowVolume(k, probe.variant)
    /\ e.is_signal_sense_on = (RowSense(k, probe.variant) = "on")
    /\ Ok(e.input_id) = InputID_create_from_status_id(RowInput(k), probe.tables[1])

\* C5 (amended): after the documented preamble of 11 lines (the ten listed lines
\* and the blank line before the column header, so that the rows start at line
\* offset 11), n well-formed rows of distinct outputs followed by a short row or
\* the end of the body give a SystemStatus with exactly n outputs, one per row,
\* each with is_on, volume and is_signal_sense_on as the row says and its
\* InputID decoded from the row's input status id with the num_analog of the
\* INPUT? table; the rows of Zone 1 and Digital Out A give exactly 2 outputs.
C5_StatusSnapshot ==
    (Parsed /\ probe.lines = 11)
        => /\ probe.out.exc = ""
           /\ Cardinality(DOMAIN probe.out.value.outputs) = Len(probe.rows)
           /\ \A j \in 1..Len(probe.rows) :
                  /\ Cardinality(EntriesOf(probe.rows[j])) = 1
                  /\ \A key \in EntriesOf(probe.rows[j]) :
                         EntryMatches(probe.out.value.outputs[key], probe.rows[j])

\* C5's case: the rows of Zone 1 and Digital Out A after the 11-line preamble
C5_Witness ==
    /\ Parsed
    /\ probe.lines = 11
    /\ probe.rows = <<1, 9>>
    /\ probe.tables = <<8, 2>>
    /\ probe.out.exc = ""
    /\ Cardinality(DOMAIN probe.out.value.outputs) = 2

\* C5 as stated: after the 10-line preamble (amplifier name, temp, voltage, the
\* three protect lines, IP, date, time, column header) n well-formed rows give
\* exactly n outputs.
C5_TenLinePreamble ==
    (Parsed /\ probe.lines = 10 /\ probe.terminator \in {1, 2})
        => /\ probe.out.exc = ""
           /\ Cardinality(DOMAIN probe.out.value.outputs) = Len(probe.rows)

\* C6: a row whose display name starts with "Digital Out" is stored under the
\* digital wire form DXO{letter} ("Digital Out A" under DXOa, "Digital Out B"
\* under DXOb) and never under Z9 or Z10, and a row named "Zone k" is stored
\* under Z{k}.
C6_DigitalKeys ==
    (Parsed /\ probe.lines = 11 /\ probe.out.exc = "")
        => \A j \in 1..Len(probe.rows) :
               IF probe.rows[j] <= 8
               THEN EntriesOf(probe.rows[j]) = {"Z" \o ToString(probe.rows[j])}
               ELSE EntriesOf(probe.rows[j]) = {"DXO" \o CharAt(Lower, probe.rows[j] - 8)}

\* the rows of the body that lie at line offset 11 or beyond
RowsFromOffset == {j \in 1..Len(probe.rows) : j > 11 - probe.lines}

\* C7: among the rows from line offset 11 on, the first with fewer than 11
\* fields ends the parse without an error; the outputs recorded are exactly
\* those of the rows before it, and neither it nor the well-formed row after
\* it is added.
C7_ShortRowTerminates ==
    (Parsed /\ probe.lines + Len(probe.rows) >= 11)
        => /\ probe.out.exc = ""
           /\ {probe.out.value.outputs[key].name : key \in DOMAIN probe.out.value.outputs}
                  = {RowName(probe.rows[j]) : j \in RowsFromOffset}

\* C7's case: two rows, then a short row with a well-formed row after it
C7_Witness ==
    /\ Parsed
    /\ probe.lines = 11
    /\ probe.rows = <<1, 2>>
    /\ probe.terminator = 3
    /\ probe.out.exc = ""
    /\ Cardinality(DOMAIN probe.out.value.outputs) = 2

(***************************************************************************)
(* The control operations and the read loop against the device             *)
(***************************************************************************)
ControlOps == {"map", "power", "volume"}

\* C3: a control operation whose command the device answered with the
\* rejection body "xx{command}xx\r" fails with BadCommandError: it never
\* completes normally after the device rejected its command.
C3_ControlRejected ==
    (pc = "returned" /\ call.op \in ControlOps
                     /\ result = call.command \o "\r" \o "xx" \o call.command \o "xx\r")
        => outcome.exc = "BadCommandError"

\* C4: an operation that met the end of the stream before line_count reached
\* the minimum of its command fails with TruncatedResponse.
C4_TruncatedFails ==
    (pc = "returned" /\ line_count < call.min_line_count)
        => outcome.exc = "TruncatedResponse"

\* C10: every command async_set_output_volume writes carries a volume in 0..100.
C10_VolumeInRange ==
    (call.op = "volume" /\ written # <<>>)
        => \E o \in Outputs : \E v \in 0..100 :
               written[1] = OutputID_str(o) \o "setvol" \o ToString(v) \o "\r"

(***************************************************************************)
(* What the operations write                                               *)
(***************************************************************************)
\* the wire form of an output: "Z{zoneId}" or "DXO{digitalId}"
WireOf(o) == IF o.digital_id = "" THEN "Z" \o ToString(o.zone_id) ELSE "DXO" \o o.digital_id

\* the operand of a grouped command: "GRP{groupId}" when groupId > 0, else the wire form
OperandOf(o) == IF o.group_id > 0 THEN "GRP" \o ToString(o.group_id) ELSE WireOf(o)

\* s is text with no CR and no LF in it, followed by one CR
OneCommand(s) ==
    /\ Len(s) >= 1
    /\ CharAt(s, Len(s)) = "\r"
    /\ \A j \in 1..(Len(s) - 1) : CharAt(s, j) \notin {"\r", "\n"}

\* the step in which an operation writes text and has read nothing yet
Wrote(text) == written' = <<text \o "\r">> /\ inbound' = inbound /\ result' = ""

\* what each control operation writes in the step that starts it
FramingStep ==
    /\ \A i \in Inputs, o \in Outputs :
           async_map_input_to_output(i, o) => Wrote(OperandOf(o) \o "source" \o i.protocol_name)
    /\ \A o \in Outputs :
           /\ async_set_output_power_state(o, TRUE) => Wrote(OperandOf(o) \o "on")
           /\ async_set_output_power_state(o, FALSE) => Wrote(OperandOf(o) \o "off")
    /\ \A o \in Outputs, v \in Volumes :
           async_set_output_volume(o, v) => Wrote(WireOf(o) \o "setvol" \o ToString(v))

\* C11: a control operation writes exactly one command followed by a single CR
\* and no LF, and writes it before any read; async_map_input_to_output writes
\* "{op}source{protocol name of the input}" and async_set_output_power_state
\* "{op}on" or "{op}off", where {op} is GRP{groupId} for an output with
\* groupId > 0 and its wire form otherwise; async_set_output_volume writes
\* "{wire}setvol{volume}" with the wire form even when groupId > 0.
C11_CommandFraming ==
    /\ [](call.op \in ControlOps => (Len(written) = 1 /\ OneCommand(written[1])))
    /\ [][FramingStep]_vars

\* C11's case: the volume of zone 2, which is in group 3, set to 100
C11_Witness ==
    /\ pc = "reading"
    /\ call.op = "volume"
    /\ written = <<"Z2setvol100\r">>
    /\ result = ""

(***************************************************************************)
(* The two exchanges of async_get_system_status                            *)
(***************************************************************************)
\* the read loop of the INPUT? exchange is about to read the end of the stream
InputTruncated ==
    /\ pc = "reading"
    /\ call.op = "status"
    /\ call.command = "INPUT?"
    /\ inbound = <<>>
    /\ closed

\* C12: when the INPUT? exchange fails as a truncated response (the stream ends
\* before 8 lines were read), async_get_system_status writes nothing more:
\* SYSTEMstat? is never written.
C12_TruncatedInputStops == [][InputTruncated => written' = written]_vars

(***************************************************************************)
(* The read loop, chunk by chunk                                           *)
(***************************************************************************)
\* a step in which reader.read returned data: the segments it took from the stream
ReadStep == Len(inbound') < Len(inbound)

ChunkRead == Concat(SubSeq(inbound, 1, Len(inbound) - Len(inbound')))

\* the line terminators of s
Newlines(s) == Cardinality({j \in 1..Len(s) : CharAt(s, j) = "\n"})

\* _async_send_command returned text to the operation that called it
LoopReturned(text, total) ==
    \/ pc' = "returned" /\ result' = text /\ line_count' = total
    \/ /\ call.command = "INPUT?"
       /\ pc' = "reading"
       /\ call'.command = "SYSTEMstat?"
       /\ call'.ins = parse_input_table(Split1(text, "\r")[2])
       /\ line_count' = 0

\* the loop after reading chunk, total being the line terminators received so
\* far, those of chunk included
LoopCounted(chunk, total) ==
    IF total < call.min_line_count
    THEN /\ pc' = "reading"
         /\ call' = call
         /\ result' = result \o chunk
         /\ line_count' = total
    ELSE LoopReturned(result \o chunk, total)

LoopRead(chunk) == LoopCounted(chunk, line_count + Newlines(chunk))

LoopStep ==
    ReadStep =>
        /\ pc = "reading"
        /\ line_count < call.min_line_count
        /\ LoopRead(ChunkRead)

\* C13: however the response is split into chunks, a call that has not met the
\* end of the stream keeps reading while the line terminators of all the chunks
\* read so far are fewer than the minimum of its command (1, 8 for INPUT?, 17
\* for SYSTEMstat?), stops at the first read that brings the cumulative count
\* to the minimum or more, reads nothing after that, and returns the
\* concatenation, in arrival order, of the chunks it read.
C13_ReadLoopStops ==
    /\ [](pc = "reading" => line_count < call.min_line_count)
    /\ [][LoopStep]_vars

\* C13's case: the SYSTEMstat? loop stopped at 17 lines read in several
\* chunks, with rows of the response still unread in the stream
C13_Witness ==
    /\ pc = "returned"
    /\ call.command = "SYSTEMstat?"
    /\ line_count = 17
    /\ result = "SYSTEMstat?\r" \o Preamble("Director", 11)
                     \o Concat([k \in 1..6 |-> DeviceRow(k, 1)])
    /\ inbound # <<>>
    /\ outcome.exc = ""

(***************************************************************************)
(* What a call leaves in the stream                                        *)
(***************************************************************************)
\* the calls whose responses have segments still unread in the stream
Unread == {owners[j] : j \in 1..Len(owners)}

\* C14: when calls are issued one after another and the device answers each
\* command with one complete well-formed response (here the two answers that
\* let async_get_system_status return a SystemStatus, the stream still open),
\* no part of the call's response is left unread when the call returns.
C14_ResponseConsumed ==
    (pc = "returned" /\ call.op = "status" /\ outcome.exc = "" /\ ~closed)
        => call.id \notin Unread

(***************************************************************************)
(* A control command answered in the documented format                     *)
(***************************************************************************)
\* the documented answers to a command: the echo, a CR, then the success or
\* the rejection marker
Documented(command) ==
    {command \o "\r" \o "01" \o command \o "\r",
     command \o "\r" \o "xx" \o command \o "xx\r"}

\* the device has sent its whole answer, the client has read all of it, and
\* the stream stays open with nothing more to come
AnswerRead ==
    /\ call.op \in ControlOps
    /\ result \in Documented(call.command)
    /\ inbound = <<>>
    /\ pending = <<>>
    /\ ~closed

\* C15: once a control operation has read the complete documented answer to
\* its command it returns: its read loop is over without the end of the stream
\* or any further bytes from the device.
C15_ReturnsOnResponse == AnswerRead => pc # "reading"

(***************************************************************************)
(* Two coroutines on one client: the event loop runs one of them and may   *)
(* switch to the other wherever the running one awaits or is outside an    *)
(* operation                                                               *)
(***************************************************************************)
Switch ==
    /\ pc = "reading" \/ other.pc = "reading"
    /\ pc' = other.pc
    /\ call' = other.call
    /\ result' = other.result
    /\ line_count' = other.line_count
    /\ outcome' = other.outcome
    /\ other' = [pc |-> pc, call |-> call, result |-> result, line_count |-> line_count,
                 outcome |-> outcome]
    /\ UNCHANGED <<written, inbound, closed, ncalls, pending, asked, owners, probe>>

\* the callers of this session switch zone 1 on and off
PowerOn == async_set_output_power_state(OutputID_create(1, 0, ""), TRUE)

PowerOff == async_set_output_power_state(OutputID_create(1, 0, ""), FALSE)

ConcNext ==
    \/ PowerOn
    \/ PowerOff
    \/ Read
    \/ Return
    \/ DeviceRespond
    \/ DeviceClose
    \/ Switch

SpecConc == Init /\ [][ConcNext]_vars

\* the calls whose responses the read of this step took from the stream
Consumed == {owners[j] : j \in 1..(Len(owners) - Len(owners'))}

MaxInputRows == 3

\* the rows a table is made of: what the row says, and what it is
InputProbeRows ==
    { [text |-> "Channel 1-2: CD", name |-> "Channel 1-2", kind |-> "analog", index |-> 1],
      [text |-> "Channel 3-4: Tuner", name |-> "Channel 3-4", kind |-> "analog", index |-> 2],
      [text |-> "Digital In A: TV", name |-> "Digital In A", kind |-> "digital", index |-> 1],
      [text |-> "INPUTS: 10", name |-> "INPUTS", kind |-> "other", index |-> 0],
      [text |-> "Channel Setup: basic", name |-> "Channel Setup", kind |-> "other", index |-> 0],
      [text |-> "Digital Audio: PCM", name |-> "Digital Audio", kind |-> "other", index |-> 0],
      [text |-> "END", name |-> "END", kind |-> "short", index |-> 0] }

InputTables ==
    UNION {[1..n -> InputProbeRows] : n \in 0..MaxInputRows}

InputTableBody(rows) == Concat([j \in 1..Len(rows) |-> rows[j].text \o "\r\n"])

InputTableInit ==
    /\ TransportInit
    /\ \E rows \in InputTables :
           probe = [fn |-> "inputs", rows |-> rows, done |-> FALSE, out |-> NoInputs]

ParseInputTable ==
    /\ probe.fn = "inputs"
    /\ ~probe.done
    /\ probe' = [probe EXCEPT !.done = TRUE,
                              !.out = parse_input_table(InputTableBody(probe.rows))]
    /\ UNCHANGED transport

SpecInputs == InputTableInit /\ [][ParseInputTable]_vars

\* the rows before the first row with fewer than 2 fields
Processed ==
    {j \in 1..Len(probe.rows) : \A i \in 1..j : probe.rows[i].kind # "short"}

\* the processed rows whose name is a "Channel {c1}-{c2}" or a "Digital In {LETTER}" name
Recognised == {j \in Processed : probe.rows[j].kind \in {"analog", "digital"}}

\* the analog inputs recorded before row j
AnalogBefore(j) == Cardinality({i \in Recognised : i < j /\ probe.rows[i].kind = "analog"})

\* the n-th recognised row
NthRecognised(n) == CHOOSE j \in Recognised : Cardinality({i \in Recognised : i < j}) = n - 1

\* the InputID row j stands for, decoded with the num_analog current at the row
InputOfRow(j) ==
    IF probe.rows[j].kind = "analog" THEN InputID_create_analog(probe.rows[j].index)
    ELSE InputID_create_digital(probe.rows[j].index, AnalogBefore(j))

\* row j is the last recognised row of its name
LastOfName(j) == \A i \in Recognised : probe.rows[i].name = probe.rows[j].name => i <= j

\* C17: the rows are processed in order up to the first row with fewer than
\* 2 fields; a processed row whose name is neither a "Channel {c1}-{c2}" nor a
\* "Digital In {LETTER}" name is skipped without stopping the loop; the name
\* list is the recognised names in device order and the keys of the inputs
\* map; num_analog counts the recorded analog rows, and each digital input is
\* decoded with the num_analog current at its row.
C17_InputTable ==
    (probe.fn = "inputs" /\ probe.done)
        => /\ probe.out.exc = ""
           /\ probe.out.input_names
                  = [n \in 1..Cardinality(Recognised) |-> probe.rows[NthRecognised(n)].name]
           /\ DOMAIN probe.out.inputs = {probe.rows[j].name : j \in Recognised}
           /\ probe.out.num_analog = AnalogBefore(Len(probe.rows) + 1)
           /\ \A j \in Recognised :
                  LastOfName(j) => probe.out.inputs[probe.rows[j].name] = InputOfRow(j)

====
